---- MODULE Spec2Model ----
(***************************************************************************)
(* Model of the two scripts of the repository:                             *)
(*   Post013  array_to_LaTeX(arr)      numpy array -> LaTeX bmatrix string *)
(*   Post017  TwoSampleT2Test(X, Y)    Hotelling's two-sample T^2 test     *)
(* Arrays live in a heap and are passed by reference, as in Python.  Real  *)
(* numbers are exact rationals <<num, den>>; the IEEE values the code can  *)
(* produce on bad input (nan) are special pairs.                           *)
(***************************************************************************)
EXTENDS Integers, Sequences, FiniteSets, TLC

VARIABLES script, pc, phase, swap, heap, saved,
          arr, rows,
          X, Y, nx, ny, p, delta, Sx, Sy, S_pooled, t_squared, statistic, p_value,
          rounding, stdout, outcome, first

vars == <<script, pc, phase, swap, heap, saved, arr, rows,
          X, Y, nx, ny, p, delta, Sx, Sy, S_pooled, t_squared, statistic, p_value,
          rounding, stdout, outcome, first>>

fmtLocals == <<arr, rows>>
t2Locals == <<X, Y, nx, ny, p, delta, Sx, Sy, S_pooled, t_squared, statistic, p_value>>

----------------------------------------------------------------------------
(* Bounds of the enumerated inputs.                                        *)

MaxFmtRows == 2
MaxFmtCols == 2
MaxRows == 3
MaxCols == 2

\* element values of the matrices handed to array_to_LaTeX
FmtVals == {5, -12}

----------------------------------------------------------------------------
(* Sequence helpers.                                                       *)

SeqsUpTo(S, lo, hi) == UNION {[1..n -> S] : n \in lo..hi}

----------------------------------------------------------------------------
(* str(int), str(list) and str.join, as Python computes them.              *)

Digit(d) ==
    CASE d = 0 -> "0" [] d = 1 -> "1" [] d = 2 -> "2" [] d = 3 -> "3"
      [] d = 4 -> "4" [] d = 5 -> "5" [] d = 6 -> "6" [] d = 7 -> "7"
      [] d = 8 -> "8" [] d = 9 -> "9"

RECURSIVE NatToStr(_)
NatToStr(n) == IF n < 10 THEN Digit(n) ELSE NatToStr(n \div 10) \o Digit(n % 10)

IntToStr(i) == IF i < 0 THEN "-" \o NatToStr(-i) ELSE NatToStr(i)

RECURSIVE JoinFrom(_, _, _)
JoinFrom(sep, list, i) ==
    IF i > Len(list) THEN ""
    ELSE sep \o list[i] \o JoinFrom(sep, list, i + 1)

\* a join that writes the separator before every element, the first included
JoinLeading(sep, list) == JoinFrom(sep, list, 1)

\* sep.join(list)
Join(sep, list) ==
    IF Len(list) = 0 THEN "" ELSE list[1] \o JoinFrom(sep, list, 2)

\* str() of a Python list of ints: "[1, 2]"
ListToStr(l) == "[" \o Join(", ", [i \in DOMAIN l |-> IntToStr(l[i])]) \o "]"

----------------------------------------------------------------------------
(* numpy arrays: dtype, shape and nested data.  A ragged nest of lists is  *)
(* a 1-D array of dtype object whose elements are the lists.               *)

NoArray == [dtype |-> "none", shape |-> <<>>, data |-> <<>>]

Array2D(dt, r, c, d) == [dtype |-> dt, shape |-> <<r, c>>, data |-> d]

Ragged(d) == [dtype |-> "object", shape |-> <<Len(d)>>, data |-> d]

ndim(a) == Len(a.shape)

\* the matrix of the demonstration call
DemoA == Array2D("int64", 3, 3, <<<<3, 4, 5>>, <<6, 7, 9>>, <<4, 5, 122>>>>)

FmtMatrices ==
    UNION {{Array2D("int64", sh[1], sh[2], d) : d \in [1..sh[1] -> [1..sh[2] -> FmtVals]]} :
              sh \in (0..MaxFmtRows) \X (0..MaxFmtCols)}

FmtRagged ==
    {Ragged(d) : d \in {e \in SeqsUpTo(SeqsUpTo(FmtVals, 0, MaxFmtCols), 2, MaxFmtRows) :
                           \E i, j \in DOMAIN e : Len(e[i]) # Len(e[j])}}

FmtInputs == FmtMatrices \cup FmtRagged \cup {DemoA}

\* arr.astype("str"): a new array of the same shape holding str() of each element
AsTypeStr(a) ==
    IF ndim(a) = 2
    THEN [dtype |-> "str", shape |-> a.shape,
          data |-> [i \in DOMAIN a.data |->
                      [j \in DOMAIN a.data[i] |-> IntToStr(a.data[i][j])]]]
    ELSE [dtype |-> "str", shape |-> a.shape,
          data |-> [i \in DOMAIN a.data |-> ListToStr(a.data[i])]]

----------------------------------------------------------------------------
(* Outcome of a call: a returned value or a raised exception.              *)

NoOutcome == [kind |-> "none", err |-> "", val |-> <<>>]

Returned(v) == [kind |-> "returned", err |-> "", val |-> v]

Raised(e) == [kind |-> "raised", err |-> e, val |-> <<>>]

NoFirst == [out |-> NoOutcome, printed |-> <<>>, swap |-> FALSE]

Addresses == {"A", "tmp", "versicolor", "virginica"}

----------------------------------------------------------------------------
(* array_to_LaTeX(arr)                                                     *)

\* a conversion in place, written into the argument's array
AsTypeInPlace(a) == a

\* where astype puts its result: a fresh array, the argument is not written
AsTypeTarget(a) == "tmp"

\* the call: the parameter arr is bound to the caller's array
Fmt_Call ==
    /\ script = "fmt" /\ pc = "idle"
    /\ arr' = "A"
    /\ pc' = "astype"
    /\ UNCHANGED <<rounding, script, phase, swap, heap, saved, rows, t2Locals, stdout, outcome, first>>

\* arr = arr.astype("str")
Fmt_AsType ==
    /\ pc = "astype"
    /\ heap' = [heap EXCEPT ![AsTypeTarget(arr)] = AsTypeStr(heap[arr])]
    /\ arr' = AsTypeTarget(arr)
    /\ pc' = "rows"
    /\ UNCHANGED <<rounding, script, phase, swap, saved, rows, t2Locals, stdout, outcome, first>>

\* nrow = arr.shape[0]; rows = [" & ".join(arr[i,:].tolist()) for i in range(nrow)]
Fmt_Rows ==
    /\ pc = "rows"
    /\ LET a == heap[arr]
           nrow == a.shape[1]
       IN  IF nrow > 0 /\ ndim(a) # 2
           THEN \* arr[i,:] on a 1-D array
                /\ outcome' = Raised("IndexError")
                /\ pc' = "end"
                /\ rows' = rows
           ELSE /\ rows' = [i \in 1..nrow |-> Join(" & ", a.data[i])]
                /\ pc' = "join"
                /\ outcome' = outcome
    /\ UNCHANGED <<rounding, script, phase, swap, heap, saved, arr, t2Locals, stdout, first>>

\* return "\\begin{bmatrix} " + " \\\\ ".join(rows) + " \\end{bmatrix}"
Fmt_Return ==
    /\ pc = "join"
    /\ outcome' = Returned("\\begin{bmatrix} " \o Join(" \\\\ ", rows) \o " \\end{bmatrix}")
    /\ pc' = "end"
    /\ UNCHANGED <<rounding, script, phase, swap, heap, saved, arr, rows, t2Locals, stdout, first>>

----------------------------------------------------------------------------
(* Floating-point values, modelled exactly: a finite value is a rational   *)
(* <<num, den>> in lowest terms with den > 0.  NaN is IEEE nan.  Garbage   *)
(* is a value that only rounding determines (the "inverse" LAPACK returns  *)
(* for a matrix that is singular in exact arithmetic when rounding leaves  *)
(* no pivot exactly zero) and whatever is computed from it.                *)

NaN == <<0, 0>>
Garbage == <<0, -1>>
Undef == <<0, -2>>

IsFinite(a) == a[2] > 0

Abs(i) == IF i < 0 THEN -i ELSE i

RECURSIVE GCD(_, _)
GCD(a, b) == IF b = 0 THEN a ELSE GCD(b, a % b)

Norm(n, d) ==
    IF n = 0 THEN <<0, 1>>
    ELSE IF d = 1 THEN <<n, 1>>
    ELSE LET g == GCD(Abs(n), Abs(d))
             sg == IF d < 0 THEN -1 ELSE 1
         IN  <<(sg * n) \div g, (sg * d) \div g>>

RInt(i) == <<i, 1>>

\* an operation with a non-finite operand
NonFinite(a, b) == IF a = Garbage \/ b = Garbage THEN Garbage ELSE NaN

RAdd(a, b) ==
    IF IsFinite(a) /\ IsFinite(b)
    THEN Norm(a[1] * b[2] + b[1] * a[2], a[2] * b[2])
    ELSE NonFinite(a, b)

RSub(a, b) ==
    IF IsFinite(a) /\ IsFinite(b)
    THEN Norm(a[1] * b[2] - b[1] * a[2], a[2] * b[2])
    ELSE NonFinite(a, b)

RMul(a, b) ==
    IF IsFinite(a) /\ IsFinite(b)
    THEN Norm(a[1] * b[1], a[2] * b[2])
    ELSE NonFinite(a, b)

\* numpy division: x/0 warns and yields nan (0/0) or inf; the code divides by
\* zero only where the numerator is already nan or 0
RDiv(a, b) ==
    IF IsFinite(a) /\ IsFinite(b)
    THEN IF b[1] = 0 THEN NaN ELSE Norm(a[1] * b[2], a[2] * b[1])
    ELSE NonFinite(a, b)

RECURSIVE RSumFrom(_, _)
RSumFrom(s, i) == IF i = Len(s) THEN s[i] ELSE RAdd(s[i], RSumFrom(s, i + 1))

RSum(s) == IF Len(s) = 0 THEN RInt(0) ELSE RSumFrom(s, 1)

Max(a, b) == IF a >= b THEN a ELSE b

----------------------------------------------------------------------------
(* Sample sets: n x p arrays, rows are observations.  The observations are *)
(* the origin and the unit points of p-space, listed in a fixed order      *)
(* (mean and covariance do not depend on the order of the rows).           *)

Point(k, cols) == [j \in 1..cols |-> IF j = k THEN 1 ELSE 0]

Sample(idx, cols) ==
    [dtype |-> "float64", shape |-> <<Len(idx), cols>>,
     data |-> [i \in DOMAIN idx |-> Point(idx[i], cols)]]

Samples ==
    UNION {{Sample(idx, cols) :
               idx \in {s \in SeqsUpTo(0..cols, 1, MaxRows) :
                           \A i \in 1..(Len(s) - 1) : s[i] <= s[i + 1]}} :
           cols \in 1..MaxCols}

----------------------------------------------------------------------------
(* The numpy operations TwoSampleT2Test uses.                              *)

\* np.mean(a, axis=0): the per-column means, a vector of length p
ColMean(a) ==
    [j \in 1..a.shape[2] |->
        RDiv(RSum([i \in 1..a.shape[1] |-> RInt(a.data[i][j])]), RInt(a.shape[1]))]

\* u - v on 1-D arrays broadcasts when the lengths agree or one of them is 1
CanBroadcast(m, n) == m = n \/ m = 1 \/ n = 1

\* the sum where the difference is meant
BroadcastPlus(u, v) ==
    [j \in 1..Max(Len(u), Len(v)) |->
        RAdd(u[IF Len(u) = 1 THEN 1 ELSE j], v[IF Len(v) = 1 THEN 1 ELSE j])]

BroadcastSub(u, v) ==
    [j \in 1..Max(Len(u), Len(v)) |->
        RSub(u[IF Len(u) = 1 THEN 1 ELSE j], v[IF Len(v) = 1 THEN 1 ELSE j])]

\* the divisor of np.cov: n - ddof with ddof = 1
CovDivisor(n) == n - 1

\* np.cov(a, rowvar=False): centre the columns, c = dot(X, X.T) / (n - 1), then
\* squeeze: with one column the result is 0-dimensional.  With one row the
\* divisor is 0 and every entry is 0 * (1/0) = nan.
Cov(a) ==
    LET n == a.shape[1]
        cols == a.shape[2]
        avg == ColMean(a)
        dev == [i \in 1..n |-> [j \in 1..cols |-> RSub(RInt(a.data[i][j]), avg[j])]]
        c(j, k) == RSum([i \in 1..n |-> RMul(dev[i][j], dev[i][k])])
        scale == RDiv(RInt(1), RInt(CovDivisor(n)))
    IN  [nd |-> IF cols = 1 THEN 0 ELSE 2,
         m |-> [j \in 1..cols |->
                  [k \in 1..cols |->
                     IF CovDivisor(n) <= 0 THEN NaN ELSE RMul(c(j, k), scale)]]]

NoCov == [nd |-> -1, m |-> <<>>]

\* scalar * array
Scale(k, A) == [nd |-> A.nd, m |-> [i \in DOMAIN A.m |-> [j \in DOMAIN A.m |-> RMul(RInt(k), A.m[i][j])]]]

\* array / scalar
DivBy(A, k) == [nd |-> A.nd, m |-> [i \in DOMAIN A.m |-> [j \in DOMAIN A.m |-> RDiv(A.m[i][j], RInt(k))]]]

\* A + B: a 0-dimensional operand is added to every entry of the other
BroadcastAdd(A, B) ==
    LET k == Max(Len(A.m), Len(B.m))
        at(C, i, j) == IF C.nd = 0 THEN C.m[1][1] ELSE C.m[i][j]
    IN  [nd |-> Max(A.nd, B.nd),
         m |-> [i \in 1..k |-> [j \in 1..k |-> RAdd(at(A, i, j), at(B, i, j))]]]

\* weights n instead of n - 1
PoolWeightsBiased(n1, n2) == <<n1, n2>>

\* the second weight without its - 1
PoolWeightsLopsided(n1, n2) == <<n1 - 1, n2>>

\* the weights of the two covariance matrices in the pooled estimate
PoolWeights(n1, n2) == <<n1 - 1, n2 - 1>>

\* ((nx-1)*Sx + (ny-1)*Sy)/(nx+ny-2)
Pooled(n1, n2, A, B) ==
    DivBy(BroadcastAdd(Scale(PoolWeights(n1, n2)[1], A), Scale(PoolWeights(n1, n2)[2], B)),
          n1 + n2 - 2)

\* m without row r and column c
Minor(m, r, c) ==
    [i \in 1..(Len(m) - 1) |->
        [j \in 1..(Len(m) - 1) |->
            m[IF i < r THEN i ELSE i + 1][IF j < c THEN j ELSE j + 1]]]

RECURSIVE Det(_)
Det(m) ==
    IF Len(m) = 0 THEN RInt(1)
    ELSE IF Len(m) = 1 THEN m[1][1]
    ELSE IF Len(m) = 2 THEN RSub(RMul(m[1][1], m[2][2]), RMul(m[1][2], m[2][1]))
    ELSE RSum([j \in 1..Len(m) |->
                 RMul(RMul(RInt(IF j % 2 = 1 THEN 1 ELSE -1), m[1][j]), Det(Minor(m, 1, j)))])

HasNaN(m) == \E i, j \in DOMAIN m : ~IsFinite(m[i][j])

\* the inverse of a matrix that has one
Inverse(m) ==
    LET d == Det(m)
    IN  [i \in DOMAIN m |->
           [j \in DOMAIN m |->
               RDiv(RMul(RInt(IF (i + j) % 2 = 0 THEN 1 ELSE -1), Det(Minor(m, j, i))), d)]]

Filled(k, v) == [i \in 1..k |-> [j \in 1..k |-> v]]

\* A is a square matrix of finite entries that has no inverse
Singular(A) == A.nd = 2 /\ ~HasNaN(A.m) /\ Det(A.m) = RInt(0)

\* a column of exact zeros (a feature that is constant in both samples)
HasZeroColumn(m) == \E j \in DOMAIN m : \A i \in DOMAIN m : m[i][j] = RInt(0)

\* How LAPACK's factorisation of a singular matrix can end: it reports the
\* matrix as singular only when it meets a pivot that is exactly zero.  A
\* column of zeros stays zero and is always met; otherwise rounding decides
\* (the same way every time the same matrix is factorised).
Roundings == {"zero pivot", "tiny pivot"}

RoundingOf(A, sing, seen) ==
    IF ~sing THEN {seen}
    ELSE IF HasZeroColumn(A.m) THEN {"zero pivot"}
    ELSE IF seen = "" THEN Roundings
    ELSE {seen}

\* np.linalg.inv(A): an exception or a matrix.  A 0-dimensional argument is
\* rejected.  nan entries are never an exactly-zero pivot and come back as
\* nan.  For a singular matrix (sing) the rounding r decides between the
\* exception and a matrix of huge values.
LinalgInv(A, sing, r) ==
    IF A.nd = 0 THEN [err |-> "LinAlgError", m |-> <<>>]
    ELSE IF HasNaN(A.m) THEN [err |-> "", m |-> Filled(Len(A.m), NaN)]
    ELSE IF sing
         THEN IF r = "zero pivot" THEN [err |-> "LinAlgError", m |-> <<>>]
              ELSE [err |-> "", m |-> Filled(Len(A.m), Garbage)]
    ELSE [err |-> "", m |-> Inverse(A.m)]

\* np.matmul(np.matmul(d.transpose(), m), d) for a vector d
QuadForm(d, m) ==
    RSum([j \in DOMAIN d |-> RMul(RSum([i \in DOMAIN d |-> RMul(d[i], m[i][j])]), d[j])])

\* the second parameter of the F distribution
Dof2(n1, n2, cols) == n1 + n2 - cols - 1

\* t_squared * (nx+ny-p-1)/(p*(nx+ny-2))
FStatistic(t2, n1, n2, cols) ==
    RDiv(RMul(t2, RInt(n1 + n2 - cols - 1)), RInt(cols * (n1 + n2 - 2)))

\* 1 - f(d1, d2).cdf(x).  The F distribution's cdf is not computed: it is 0 at
\* and below 0, nan for a nan argument or a parameter that is not positive,
\* and otherwise the value stays the term sf(x; d1, d2).
NoPValue == [k |-> "none", x |-> Undef, d1 |-> 0, d2 |-> 0]

UpperTail(x, d1, d2) ==
    IF x = Garbage THEN [k |-> "garbage", x |-> Garbage, d1 |-> 0, d2 |-> 0]
    ELSE IF ~IsFinite(x) \/ d1 <= 0 \/ d2 <= 0 THEN [k |-> "nan", x |-> NaN, d1 |-> 0, d2 |-> 0]
    ELSE IF x[1] <= 0 THEN [k |-> "one", x |-> RInt(1), d1 |-> 0, d2 |-> 0]
    ELSE [k |-> "sf", x |-> x, d1 |-> d1, d2 |-> d2]

\* the f-string of the summary: its literal pieces and the values it shows
Summary(stat, d1, d2, pv) ==
    <<"Test statistic: ", stat, "\nDegrees of freedom: ", d1, " and ", d2, "\np-value: ", pv>>

----------------------------------------------------------------------------
(* TwoSampleT2Test(X, Y)                                                   *)

\* the call: X and Y are bound to the caller's arrays;
\* nx, p = X.shape; ny, _ = Y.shape
T2_Call ==
    /\ script = "t2" /\ pc = "idle"
    /\ X' = (IF swap THEN "virginica" ELSE "versicolor")
    /\ Y' = (IF swap THEN "versicolor" ELSE "virginica")
    /\ nx' = heap[X'].shape[1]
    /\ p' = heap[X'].shape[2]
    /\ ny' = heap[Y'].shape[1]
    /\ pc' = "delta"
    /\ UNCHANGED <<rounding, script, phase, swap, heap, saved, fmtLocals, delta, Sx, Sy, S_pooled,
                   t_squared, statistic, p_value, stdout, outcome, first>>

\* delta = np.mean(X, axis=0) - np.mean(Y, axis=0)
T2_Delta ==
    /\ pc = "delta"
    /\ LET mx == ColMean(heap[X])
           my == ColMean(heap[Y])
       IN  IF CanBroadcast(Len(mx), Len(my))
           THEN /\ delta' = BroadcastSub(mx, my)
                /\ pc' = "cov"
                /\ outcome' = outcome
           ELSE \* operands could not be broadcast together
                /\ outcome' = Raised("ValueError")
                /\ pc' = "end"
                /\ delta' = delta
    /\ UNCHANGED <<rounding, script, phase, swap, heap, saved, fmtLocals, X, Y, nx, ny, p, Sx, Sy,
                   S_pooled, t_squared, statistic, p_value, stdout, first>>

\* the same step with a progress line printed once the matrices are pooled
T2_PooledPrinting ==
    /\ pc = "cov"
    /\ Sx' = Cov(heap[X])
    /\ Sy' = Cov(heap[Y])
    /\ S_pooled' = Pooled(nx, ny, Sx', Sy')
    /\ stdout' = Append(stdout, <<"Pooled covariance: ", S_pooled'>>)
    /\ pc' = "tsq"
    /\ UNCHANGED <<rounding, script, phase, swap, heap, saved, fmtLocals, X, Y, nx, ny, p, delta,
                   t_squared, statistic, p_value, outcome, first>>

\* Sx = np.cov(X, rowvar=False); Sy = np.cov(Y, rowvar=False)
\* S_pooled = ((nx-1)*Sx + (ny-1)*Sy)/(nx+ny-2)
T2_Pooled ==
    /\ pc = "cov"
    /\ Sx' = Cov(heap[X])
    /\ Sy' = Cov(heap[Y])
    /\ S_pooled' = Pooled(nx, ny, Sx', Sy')
    /\ pc' = "tsq"
    /\ UNCHANGED <<rounding, script, phase, swap, heap, saved, fmtLocals, X, Y, nx, ny, p, delta,
                   t_squared, statistic, p_value, stdout, outcome, first>>

\* t_squared = (nx*ny)/(nx+ny) * np.matmul(np.matmul(delta.transpose(),
\*                                          np.linalg.inv(S_pooled)), delta)
T2_TSquared ==
    /\ pc = "tsq"
    /\ LET sing == Singular(S_pooled)
       IN  \E r \in RoundingOf(S_pooled, sing, rounding) :
              LET inv == LinalgInv(S_pooled, sing, r)
              IN  /\ rounding' = r
                  /\ IF inv.err # ""
                     THEN /\ outcome' = Raised(inv.err)
                          /\ pc' = "end"
                          /\ t_squared' = t_squared
                     ELSE /\ t_squared' = RMul(RDiv(RInt(nx * ny), RInt(nx + ny)),
                                               QuadForm(delta, inv.m))
                          /\ pc' = "stat"
                          /\ outcome' = outcome
    /\ UNCHANGED <<script, phase, swap, heap, saved, fmtLocals, X, Y, nx, ny, p, delta,
                   Sx, Sy, S_pooled, statistic, p_value, stdout, first>>

\* statistic = t_squared * (nx+ny-p-1)/(p*(nx+ny-2))
\* F = f(p, nx+ny-p-1); p_value = 1 - F.cdf(statistic)
T2_Statistic ==
    /\ pc = "stat"
    /\ statistic' = FStatistic(t_squared, nx, ny, p)
    /\ p_value' = UpperTail(statistic', p, Dof2(nx, ny, p))
    /\ pc' = "print"
    /\ UNCHANGED <<rounding, script, phase, swap, heap, saved, fmtLocals, X, Y, nx, ny, p, delta,
                   Sx, Sy, S_pooled, t_squared, stdout, outcome, first>>

\* print(f"Test statistic: {statistic}\nDegrees of freedom: {p} and {nx+ny-p-1}\np-value: {p_value}")
T2_Print ==
    /\ pc = "print"
    /\ stdout' = Append(stdout, Summary(statistic, p, nx + ny - p - 1, p_value))
    /\ pc' = "return"
    /\ UNCHANGED <<rounding, script, phase, swap, heap, saved, fmtLocals, t2Locals, outcome, first>>

\* return statistic, p_value
T2_Return ==
    /\ pc = "return"
    /\ outcome' = Returned(<<statistic, p_value>>)
    /\ pc' = "end"
    /\ UNCHANGED <<rounding, script, phase, swap, heap, saved, fmtLocals, t2Locals, stdout, first>>

----------------------------------------------------------------------------
(* The scripts: each holds its data and calls its function.  To compare    *)
(* two calls, a script may call a second time on the same arrays: with the *)
(* same arguments (SpecRepeat) or with X and Y exchanged (SpecSwap).       *)

NoLocalsFmt == arr = "" /\ rows = <<>>

NoLocalsT2 ==
    /\ X = "" /\ Y = "" /\ nx = 0 /\ ny = 0 /\ p = 0
    /\ delta = <<>> /\ Sx = NoCov /\ Sy = NoCov /\ S_pooled = NoCov
    /\ t_squared = Undef /\ statistic = Undef /\ p_value = NoPValue

EmptyHeap == [a \in Addresses |-> NoArray]

\* A = np.array(...); print(array_to_LaTeX(A))
InitFmt ==
    /\ script = "fmt"
    /\ \E A \in FmtInputs : heap = [EmptyHeap EXCEPT !["A"] = A]

\* versicolor = ...; virginica = ...; TwoSampleT2Test(versicolor, virginica)
InitT2 ==
    /\ script = "t2"
    /\ \E a, b \in Samples :
          heap = [EmptyHeap EXCEPT !["versicolor"] = a, !["virginica"] = b]

Start ==
    /\ saved = heap
    /\ pc = "idle" /\ phase = "first" /\ swap = FALSE
    /\ NoLocalsFmt /\ NoLocalsT2
    /\ rounding = ""
    /\ stdout = <<>> /\ outcome = NoOutcome /\ first = NoFirst

Init == (InitFmt \/ InitT2) /\ Start

InitSwap == InitT2 /\ Start

\* the first call is over: its frame is dropped and the function is called again
Fmt_Again ==
    /\ script = "fmt" /\ pc = "end" /\ phase = "first"
    /\ first' = [out |-> outcome, printed |-> stdout, swap |-> swap]
    /\ heap' = [heap EXCEPT !["tmp"] = NoArray]
    /\ arr' = "" /\ rows' = <<>>
    /\ outcome' = NoOutcome
    /\ phase' = "second" /\ pc' = "idle"
    /\ UNCHANGED <<rounding, script, swap, saved, t2Locals, stdout>>

\* TwoSampleT2Test(versicolor, virginica) once more; the first frame is gone
T2_Again ==
    /\ script = "t2" /\ pc = "end" /\ phase = "first"
    /\ first' = [out |-> outcome, printed |-> stdout, swap |-> swap]
    /\ X' = "" /\ Y' = "" /\ nx' = 0 /\ ny' = 0 /\ p' = 0
    /\ delta' = <<>> /\ Sx' = NoCov /\ Sy' = NoCov /\ S_pooled' = NoCov
    /\ t_squared' = Undef /\ statistic' = Undef /\ p_value' = NoPValue
    /\ outcome' = NoOutcome
    /\ swap' = FALSE
    /\ phase' = "second" /\ pc' = "idle"
    /\ UNCHANGED <<rounding, script, heap, saved, fmtLocals, stdout>>

\* TwoSampleT2Test(virginica, versicolor); the first frame is gone
T2_Swapped ==
    /\ script = "t2" /\ pc = "end" /\ phase = "first"
    /\ first' = [out |-> outcome, printed |-> stdout, swap |-> swap]
    /\ X' = "" /\ Y' = "" /\ nx' = 0 /\ ny' = 0 /\ p' = 0
    /\ delta' = <<>> /\ Sx' = NoCov /\ Sy' = NoCov /\ S_pooled' = NoCov
    /\ t_squared' = Undef /\ statistic' = Undef /\ p_value' = NoPValue
    /\ outcome' = NoOutcome
    /\ swap' = TRUE
    /\ phase' = "second" /\ pc' = "idle"
    /\ UNCHANGED <<rounding, script, heap, saved, fmtLocals, stdout>>

FmtSteps == Fmt_Call \/ Fmt_AsType \/ Fmt_Rows \/ Fmt_Return

T2Steps ==
    \/ T2_Call \/ T2_Delta \/ T2_Pooled \/ T2_TSquared \/ T2_Statistic
    \/ T2_Print \/ T2_Return

\* each script calls its function once
Next == FmtSteps \/ T2Steps

Spec == Init /\ [][Next]_vars

\* each script calls its function twice with the same arguments
NextRepeat == FmtSteps \/ T2Steps \/ Fmt_Again \/ T2_Again

SpecRepeat == Init /\ [][NextRepeat]_vars

\* TwoSampleT2Test is called on (X, Y) and then on (Y, X)
NextSwap == T2Steps \/ T2_Swapped

SpecSwap == InitSwap /\ [][NextSwap]_vars

----------------------------------------------------------------------------
(* Properties.                                                             *)

\* the arguments as the caller built them
InA == saved["A"]
InX == saved[IF swap THEN "virginica" ELSE "versicolor"]
InY == saved[IF swap THEN "versicolor" ELSE "virginica"]

\* what the call in progress has printed so far
Printed ==
    IF phase = "second" THEN SubSeq(stdout, Len(first.printed) + 1, Len(stdout)) ELSE stdout

SameOutcome(o1, o2) == o1.kind = o2.kind /\ o1.err = o2.err /\ o1.val = o2.val

FmtOver == script = "fmt" /\ pc = "end"
T2Over == script = "t2" /\ pc = "end"

NonEmptyMatrix(a) == ndim(a) = 2 /\ a.shape[1] >= 1 /\ a.shape[2] >= 1

SameCols == InX.shape[2] = InY.shape[2]

\* the pooled covariance was computed and has an inverse
PooledInvertible ==
    S_pooled.nd >= 0 /\ ~HasNaN(S_pooled.m) /\ Det(S_pooled.m) # RInt(0)

\* decimal numerals of the elements used, written out
Numeral(v) ==
    CASE v = 5 -> "5" [] v = -12 -> "-12" [] v = 3 -> "3" [] v = 4 -> "4"
      [] v = 6 -> "6" [] v = 7 -> "7" [] v = 9 -> "9" [] v = 122 -> "122"

RECURSIVE RowText(_, _)
RowText(row, j) ==
    IF j = 1 THEN Numeral(row[1]) ELSE RowText(row, j - 1) \o " & " \o Numeral(row[j])

RECURSIVE BodyText(_, _)
BodyText(d, i) ==
    IF i = 1 THEN RowText(d[1], Len(d[1]))
    ELSE BodyText(d, i - 1) \o " \\\\ " \o RowText(d[i], Len(d[i]))

Bmatrix(a) == "\\begin{bmatrix} " \o BodyText(a.data, Len(a.data)) \o " \\end{bmatrix}"

\* C1: for a non-empty r x c matrix array_to_LaTeX returns exactly
\* "\begin{bmatrix} " + R1 + " \\ " + ... + " \\ " + Rr + " \end{bmatrix}", Ri the
\* numerals of row i joined by " & ", rows in input order; [[5]] gives
\* "\begin{bmatrix} 5 \end{bmatrix}" and the 3 x 3 example its documented string.
C1_ExactString ==
    (FmtOver /\ NonEmptyMatrix(InA)) =>
        /\ outcome.kind = "returned"
        /\ outcome.val = Bmatrix(InA)
        /\ (InA.data = <<<<5>>>> => outcome.val = "\\begin{bmatrix} 5 \\end{bmatrix}")
        /\ (InA = DemoA =>
              outcome.val = "\\begin{bmatrix} 3 & 4 & 5 \\\\ 6 & 7 & 9 \\\\ 4 & 5 & 122 \\end{bmatrix}")

\* a 2 x 2 matrix has been formatted: both separators occur
C1_Witness ==
    FmtOver /\ InA.shape = <<2, 2>> /\ outcome.kind = "returned"

\* C2: array_to_LaTeX fails, returning no string, whenever its matrix is empty
\* (zero rows or zero columns) or not rectangular.
C2_RejectsInvalid ==
    (FmtOver /\ ~NonEmptyMatrix(InA)) => outcome.kind = "raised"

\* C3: TwoSampleT2Test(X, Y) fails, returning no result, whenever the column
\* counts of X and Y differ, one of them being 1 included (stated for samples
\* of two rows or more on which no singular matrix is met, so that nothing
\* else can fail).
C3_RejectsMismatch ==
    (T2Over /\ ~SameCols /\ nx >= 2 /\ ny >= 2 /\ rounding = "") =>
        outcome.kind = "raised"

\* C4: with equal column counts p >= 1, more than p rows in each sample and an
\* invertible pooled covariance, TwoSampleT2Test completes without an error
\* and returns a (statistic, p-value) pair, for p = 1 too.
C4_ValidCompletes ==
    (T2Over /\ SameCols /\ nx > p /\ ny > p /\ PooledInvertible) =>
        outcome.kind = "returned"

\* C5: for samples of equal column count, TwoSampleT2Test fails, returning no
\* statistic or p-value, whenever the pooled covariance has no inverse (too
\* few rows, a single row, degenerate or collinear features); stated leaving
\* aside the runs in which rounding hides a singular matrix from LAPACK.
C5_SingularFails ==
    (T2Over /\ SameCols /\ S_pooled.nd >= 0 /\ ~PooledInvertible
            /\ rounding # "tiny pivot") =>
        outcome.kind = "raised"

----------------------------------------------------------------------------
(* The statistic written out from the samples' sums, without the steps of  *)
(* the code: n*(n-1)*S[j][k] = n * sum x_j x_k - (sum x_j)(sum x_k), and    *)
(* the quadratic form d' S^-1 d by Cramer's rule.                          *)

RECURSIVE IntSumFrom(_, _)
IntSumFrom(s, i) == IF i > Len(s) THEN 0 ELSE s[i] + IntSumFrom(s, i + 1)

ColSum(a, j) == IntSumFrom([i \in 1..a.shape[1] |-> a.data[i][j]], 1)

CrossSum(a, j, k) == IntSumFrom([i \in 1..a.shape[1] |-> a.data[i][j] * a.data[i][k]], 1)

MeanDiff(a, b) ==
    [j \in 1..a.shape[2] |->
        RDiv(RInt(b.shape[1] * ColSum(a, j) - a.shape[1] * ColSum(b, j)),
             RInt(a.shape[1] * b.shape[1]))]

\* n times the sum of products of deviations of columns j and k
Scatter(a, j, k) == a.shape[1] * CrossSum(a, j, k) - ColSum(a, j) * ColSum(a, k)

PooledCov(a, b) ==
    [j \in 1..a.shape[2] |->
        [k \in 1..a.shape[2] |->
            RDiv(RInt(b.shape[1] * Scatter(a, j, k) + a.shape[1] * Scatter(b, j, k)),
                 RInt(a.shape[1] * b.shape[1] * (a.shape[1] + b.shape[1] - 2)))]]

WithColumn(m, c, d) == [i \in DOMAIN m |-> [j \in DOMAIN m |-> IF j = c THEN d[i] ELSE m[i][j]]]

\* n1*n2/(n1+n2) * d' S^-1 d
HotellingT2(d, S, n1, n2) ==
    LET det == Det(S)
        w == [j \in DOMAIN d |-> RDiv(Det(WithColumn(S, j, d)), det)]
    IN  RMul(RDiv(RInt(n1 * n2), RInt(n1 + n2)), RSum([j \in DOMAIN d |-> RMul(d[j], w[j])]))

FRatio(d, S, n1, n2, cols) ==
    RDiv(RMul(HotellingT2(d, S, n1, n2), RInt(n1 + n2 - cols - 1)),
         RInt(cols * (n1 + n2 - 2)))

\* a call on samples of equal column count, two rows or more each, whose
\* pooled covariance has an inverse
ValidCall == SameCols /\ nx >= 2 /\ ny >= 2 /\ PooledInvertible

\* C6: on valid input the returned statistic is T2*(n1+n2-p-1)/(p*(n1+n2-2)),
\* T2 = n1*n2/(n1+n2) * d' inverse(S_pooled) d, d the difference of the column
\* means, S_pooled = ((n1-1)*Sx + (n2-1)*Sy)/(n1+n2-2) with the unbiased
\* covariances; the degrees of freedom of the p-value and of the summary are
\* (p, n1+n2-p-1).
C6_Statistic ==
    (T2Over /\ ValidCall /\ outcome.kind = "returned") =>
        LET n1 == InX.shape[1]
            n2 == InY.shape[1]
            cols == InX.shape[2]
            d == MeanDiff(InX, InY)
            S == PooledCov(InX, InY)
        IN  /\ delta = d
            /\ S_pooled.m = S
            /\ outcome.val[1] = FRatio(d, S, n1, n2, cols)
            /\ outcome.val[2] = UpperTail(outcome.val[1], cols, n1 + n2 - cols - 1)
            /\ Printed[1][4] = cols
            /\ Printed[1][6] = n1 + n2 - cols - 1

\* a valid call on samples of different sizes has returned a positive statistic
C6_Witness ==
    /\ T2Over /\ ValidCall /\ outcome.kind = "returned"
    /\ nx # ny /\ nx > p /\ outcome.val[1][1] > 0

\* C7: for samples of equal column count (valid input, the row counts may
\* differ) TwoSampleT2Test(Y, X) ends as TwoSampleT2Test(X, Y) did: the same
\* statistic and p-value, the same degrees of freedom in the summary.
C7_Symmetric ==
    (T2Over /\ phase = "second" /\ swap /\ ValidCall) =>
        /\ SameOutcome(outcome, first.out)
        /\ Printed = first.printed

\* the swapped call has returned a positive statistic, the sizes differing
C7_Witness ==
    /\ T2Over /\ phase = "second" /\ swap /\ ValidCall
    /\ outcome.kind = "returned" /\ nx # ny /\ outcome.val[1][1] > 0
    /\ heap["versicolor"] # heap["virginica"]

One == [k |-> "one", x |-> RInt(1), d1 |-> 0, d2 |-> 0]

C9_NoPartialResults ==
    script = "t2" =>
        /\ outcome.kind = "raised" => Len(Printed) = 0
        /\ outcome.kind = "returned" =>
              /\ Len(Printed) = 1
              /\ Printed[1][2] = outcome.val[1]
              /\ Printed[1][8] = outcome.val[2]
        /\ pc = "return" => Len(Printed) = 1
        /\ pc \in {"idle", "delta", "cov", "tsq", "stat", "print"} => Len(Printed) = 0

\* a call has raised after the covariances were pooled
C9_Witness ==
    /\ T2Over /\ outcome.kind = "raised" /\ outcome.err = "LinAlgError"
    /\ S_pooled.nd = 2 /\ nx > p /\ ny > p

Unwritten(a) ==
    /\ heap[a].dtype = saved[a].dtype
    /\ heap[a].shape = saved[a].shape
    /\ heap[a].data = saved[a].data

\* C10: the caller's arrays hold the same elements of the same type during and
\* after a call of either function, whether it returns or raises; and a
\* second call on the same arguments ends as the first did and prints the
\* same summary.
C10_InputsUnchanged ==
    /\ \A a \in {"A", "versicolor", "virginica"} : Unwritten(a)
    /\ (pc = "end" /\ phase = "second" /\ ~swap) =>
          /\ SameOutcome(outcome, first.out)
          /\ Printed = first.printed

\* a second call on the same arguments has returned
C10_Witness ==
    /\ pc = "end" /\ phase = "second" /\ ~swap
    /\ outcome.kind = "returned"
    /\ script = "t2" => outcome.val[1][1] > 0
    /\ script = "fmt" => InA.shape = <<2, 2>>

====
